---- MODULE Spec2Model ----
(***************************************************************************)
(* Verification model of the EduSynth backend (S1056SAR/GenAI-Project).    *)
(*                                                                         *)
(* Part 1: the learning-journey registry and its three request handlers    *)
(* (backend/api/routes_journey.py) together with the JourneyAgent they     *)
(* call (backend/agents/journey_graph.py).  Parts 2 to 5: the Tutor and    *)
(* Examiner workflows, the key-rotating model call and the video jobs,     *)
(* each with a specification of its own.                                   *)
(***************************************************************************)
EXTENDS Integers, Sequences, FiniteSets, TLC

(***************************************************************************)
(* Bounds of the model.                                                    *)
(***************************************************************************)
\* Longest curriculum the curriculum model call is taken to return.
MaxNodes == 3
\* Most answers a quiz-submission request carries.
MaxAnswers == 2
\* Most executions of the generator call site counted per node.
MaxCalls == 2

(***************************************************************************)
(* Program constants.                                                      *)
(***************************************************************************)
\* routes_journey.py:165   passed = score_percent >= 66
PassPercent == 66
\* journey_graph.py:266    valid_questions[:3]
MaxQuiz == 3
\* journey_graph.py:138-142  the fallback curriculum has three nodes
FallbackLen == 3

\* Authenticated users (User.id) and the values str(uuid.uuid4())[:8] takes.
Users == {"u1", "u2"}
CourseIds == {"c1", "c2"}

\* Node ids in the format the curriculum prompt asks for and the default
\* f"node_{i+1}" of design_curriculum; "node_x" is an id no course holds.
NodeIdOf(i) == "node_" \o ToString(i)
UnknownNodeId == "node_x"
NoJourney == [missing |-> TRUE]
Null == "null"

VARIABLES
    active_journeys,  \* routes_journey.py:12  user id -> course id -> JourneyState
    resp,             \* the request just handled and the response it got
    gen_calls,        \* history: executions of routes_journey.py:131 per node
    ever_completed    \* history: node indexes whose status was set "completed"

VARIABLES
    tutor_pc,         \* the Tutor graph's position: the stage to run next
    tutor_state,      \* the TutorState the graph run carries (key -> value)
    tutor_trace       \* history: the stages the current run has entered

VARIABLES
    exam_pc,          \* the Examiner graph's position, down to the selector's loops
    exam_state,       \* the ExaminerState the graph run carries (key -> value)
    sel,              \* selector_node's locals and the picks made per module
    exam_hist         \* history: the blueprint call's outcome, the stages entered

VARIABLES
    key_manager,      \* ingestion_exam.py:38  _key_manager.current_index
    rot               \* extract_with_rotation's locals and the attempts it made

VARIABLES
    jobs,             \* video_generator.py:40  job id -> status record
    task,             \* each background task's position and locals
    poll              \* the status poll just answered

VARIABLES
    ext               \* the model reply last run through a JSON extraction, and what came of it

VARIABLES
    paper             \* build_exam_from_syllabus's arguments, locals and position

journey_vars == <<active_journeys, resp, gen_calls, ever_completed>>
tutor_vars == <<tutor_pc, tutor_state, tutor_trace>>
examiner_vars == <<exam_pc, exam_state, sel, exam_hist>>
rotation_vars == <<key_manager, rot>>
video_vars == <<jobs, task, poll>>
extraction_vars == <<ext>>
paper_vars == <<paper>>

vars ==
    <<journey_vars, tutor_vars, examiner_vars, rotation_vars, video_vars,
      extraction_vars, paper_vars>>

(***************************************************************************)
(* models/journey.py                                                       *)
(***************************************************************************)
\* JourneyNode(id, title, description, status): content_summary and
\* quiz_questions take their defaults "" and [].  A quiz question is kept
\* as its correct_answer; title and description are never read by the
\* handlers' control flow and are left out.
JourneyNode(id, status) ==
    [id |-> id, status |-> status, content_summary |-> "", quiz_questions |-> <<>>]

JourneyState(nodes, idx) ==
    [nodes |-> nodes, current_node_index |-> idx]

(***************************************************************************)
(* JourneyAgent.design_curriculum                                          *)
(***************************************************************************)
\* What lines 83-107 can end in: an exception (model call, empty content,
\* json.loads, a non-list or malformed item), or a parsed list of n items.
CurriculumOutcomes ==
    {[parsed |-> FALSE, n |-> 0]} \cup {[parsed |-> TRUE, n |-> k] : k \in 0..MaxNodes}

FallbackCurriculum ==
    [i \in 1..FallbackLen |-> JourneyNode(NodeIdOf(i), IF i = 1 THEN "unlocked" ELSE "locked")]

\* design_curriculum without lines 121-122: the first node stays locked.
design_curriculum_first_locked(out) ==
    IF out.parsed
    THEN [i \in 1..out.n |-> JourneyNode(NodeIdOf(i), "locked")]
    ELSE FallbackCurriculum

\* Every parsed item becomes a locked node; the first one, if any, is then
\* unlocked.  An empty parsed list is returned as it is.
design_curriculum(out) ==
    IF out.parsed
    THEN [i \in 1..out.n |-> JourneyNode(NodeIdOf(i), IF i = 1 THEN "unlocked" ELSE "locked")]
    ELSE FallbackCurriculum

\* The most nodes a journey of the model has.
LongestCurriculum == IF MaxNodes > FallbackLen THEN MaxNodes ELSE FallbackLen

(***************************************************************************)
(* Responses                                                               *)
(***************************************************************************)
NoResp ==
    [op |-> "none", user |-> "none", course |-> "none", node_id |-> Null,
     status |-> 0, result |-> Null, next_node_id |-> Null]

Response(op, u, c, nid, status, result, next) ==
    [op |-> op, user |-> u, course |-> c, node_id |-> nid,
     status |-> status, result |-> result, next_node_id |-> next]

\* active_journeys = {} (routes_journey.py:12); the histories are empty.
JourneyInit ==
    /\ active_journeys = [u \in Users |-> [c \in CourseIds |-> NoJourney]]
    /\ resp = NoResp
    /\ gen_calls = [u \in Users |-> [c \in CourseIds |-> [i \in 1..LongestCurriculum |-> 0]]]
    /\ ever_completed = [u \in Users |-> [c \in CourseIds |-> {}]]

(***************************************************************************)
(* JourneyAgent.generate_node_content                                      *)
(***************************************************************************)
\* The parameters the method declares besides self (journey_graph.py:144)
\* and the keywords the route passes next to the positional node title
\* (routes_journey.py:131).
GenerateParams == {"node_title", "user_id"}
ContentCallKeywords == {"course_id", "user_id"}

\* Python binds a call only if every keyword names a parameter that the
\* positional arguments have not taken; otherwise the call raises TypeError
\* before the body runs.
CallBinds(keywords, params) ==
    keywords \subseteq (params \ {"node_title"})

\* Sequences over S of length at most n.
SeqsUpTo(S, n) == UNION {[1..k -> S] : k \in 0..n}

Take(s, n) == IF Len(s) <= n THEN s ELSE SubSeq(s, 1, n)

\* What the model call and parse of lines 226-252 can end in: an exception,
\* or a JSON object whose content_summary is absent, empty or a text and
\* whose well-formed questions (four options, integer correct_answer) are
\* listed by their correct_answer.
ContentOutcomes ==
    {[failed |-> TRUE, summary |-> "absent", quiz |-> <<>>]} \cup
    [failed : {FALSE}, summary : {"absent", "", "lesson"},
     quiz : SeqsUpTo(0..1, MaxQuiz + 1)]

\* A retrieval failure is caught (lines 163-170) and only changes the prompt.
\* The body returns the validated data, or the fallback lesson with its one
\* question whose correct answer is option 0.
generate_node_content(out) ==
    IF out.failed
    THEN [content_summary |-> "fallback", quiz_questions |-> <<0>>]
    ELSE [content_summary |-> IF out.summary = "absent" THEN "not_available" ELSE out.summary,
          quiz_questions |-> Take(out.quiz, MaxQuiz)]

(***************************************************************************)
(* routes_journey.py                                                       *)
(***************************************************************************)
\* next((n for n in state.nodes if n.id == node_id), None): the position of
\* the first node with that id, 0 for None.
FindNode(nodes, nid) ==
    IF \E i \in 1..Len(nodes) : nodes[i].id = nid
    THEN CHOOSE i \in 1..Len(nodes) :
            /\ nodes[i].id = nid
            /\ \A j \in 1..(i - 1) : nodes[j].id # nid
    ELSE 0

\* The journey of user u under course id c, NoJourney when
\* active_journeys.get(user.id) is None or lacks the course.
JourneyOf(u, c) == active_journeys[u][c]

\* str(uuid.uuid4())[:8] is taken to be an id no stored journey has.
FreshCourseId(c) == \A u \in Users : active_journeys[u][c] = NoJourney

\* POST /journey/start: a fresh JourneyState under the new course id.
start_journey(u, c, out) ==
    /\ FreshCourseId(c)
    /\ active_journeys' =
          [active_journeys EXCEPT ![u][c] = JourneyState(design_curriculum(out), 0)]
    /\ resp' = Response("start", u, c, Null, 200, Null, Null)
    /\ UNCHANGED <<gen_calls, ever_completed>>
    /\ UNCHANGED <<tutor_vars, examiner_vars, rotation_vars, video_vars, extraction_vars, paper_vars>>

\* POST /journey/start_from_file: reading the upload may raise (the request
\* then ends in an error and stores nothing); ingest_pathfinder_pdf catches
\* its own errors; the journey is then built as in start_journey.
start_journey_from_file(u, c, readable, out) ==
    /\ FreshCourseId(c)
    /\ IF readable
       THEN /\ active_journeys' =
                 [active_journeys EXCEPT ![u][c] = JourneyState(design_curriculum(out), 0)]
            /\ resp' = Response("start_from_file", u, c, Null, 200, Null, Null)
       ELSE /\ resp' = Response("start_from_file", u, c, Null, 500, Null, Null)
            /\ UNCHANGED active_journeys
    /\ UNCHANGED <<gen_calls, ever_completed>>
    /\ UNCHANGED <<tutor_vars, examiner_vars, rotation_vars, video_vars, extraction_vars, paper_vars>>

\* Line 125 with the guard left out: a locked node is served like any other.
NodeLocked_never(node) == FALSE

\* Line 125: node.status == "locked".
NodeLocked(node) == node.status = "locked"

\* Line 129: not node.content_summary or not node.quiz_questions.
ContentMissing(node) == node.content_summary = "" \/ node.quiz_questions = <<>>

\* GET /journey/node/{course_id}/{node_id}
get_node_content(u, c, nid) ==
    LET state == JourneyOf(u, c)
        i == IF state = NoJourney THEN 0 ELSE FindNode(state.nodes, nid)
    IN  /\ UNCHANGED ever_completed
        /\ UNCHANGED <<tutor_vars, examiner_vars, rotation_vars, video_vars, extraction_vars, paper_vars>>
        /\ IF state = NoJourney \/ i = 0
           THEN /\ resp' = Response("get_node_content", u, c, nid, 404, Null, Null)
                /\ UNCHANGED <<active_journeys, gen_calls>>
           ELSE IF NodeLocked(state.nodes[i])
           THEN /\ resp' = Response("get_node_content", u, c, nid, 403, Null, Null)
                /\ UNCHANGED <<active_journeys, gen_calls>>
           ELSE IF ContentMissing(state.nodes[i])
           THEN /\ gen_calls[u][c][i] < MaxCalls
                /\ gen_calls' = [gen_calls EXCEPT ![u][c][i] = @ + 1]
                /\ IF CallBinds(ContentCallKeywords, GenerateParams)
                   THEN \E out \in ContentOutcomes :
                          LET data == generate_node_content(out)
                          IN  /\ active_journeys' =
                                    [active_journeys EXCEPT ![u][c].nodes[i] =
                                        [@ EXCEPT !.content_summary = data.content_summary,
                                                  !.quiz_questions = data.quiz_questions]]
                              /\ resp' = Response("get_node_content", u, c, nid, 200, Null, Null)
                   ELSE \* TypeError: unexpected keyword argument 'course_id'
                        /\ resp' = Response("get_node_content", u, c, nid, 500, Null, Null)
                        /\ UNCHANGED active_journeys
           ELSE /\ resp' = Response("get_node_content", u, c, nid, 200, Null, Null)
                /\ UNCHANGED <<active_journeys, gen_calls>>

\* The answer lists (chosen option indexes) a submission carries.
AnswerLists == SeqsUpTo(0..1, MaxAnswers)

\* Lines 153-162: the answers that equal the question's correct_answer.
CorrectCount(quiz, answers) ==
    Cardinality({k \in 1..Len(quiz) : k <= Len(answers) /\ answers[k] = quiz[k]})

\* Lines 164-165: (correct_count / total) * 100 >= 66, for total > 0.
Passed(correct, total) == correct * 100 >= PassPercent * total

\* A submission handler whose answer locks the node it was sent for.
submit_quiz_relocks(u, c, nid) ==
    LET state == JourneyOf(u, c)
        i == IF state = NoJourney THEN 0 ELSE FindNode(state.nodes, nid)
    IN  /\ UNCHANGED <<gen_calls, ever_completed>>
        /\ UNCHANGED <<tutor_vars, examiner_vars, rotation_vars, video_vars, extraction_vars, paper_vars>>
        /\ IF state = NoJourney \/ i = 0
           THEN /\ resp' = Response("submit_quiz", u, c, nid, 404, Null, Null)
                /\ UNCHANGED active_journeys
           ELSE /\ resp' = Response("submit_quiz", u, c, nid, 200, "pass", Null)
                /\ active_journeys' = [active_journeys EXCEPT ![u][c].nodes[i].status = "locked"]

\* POST /journey/submit_quiz.  request.answers is read by lines 159-162
\* alone, so it is drawn where the scoring starts.
submit_quiz(u, c, nid) ==
    LET state == JourneyOf(u, c)
        i == IF state = NoJourney THEN 0 ELSE FindNode(state.nodes, nid)
    IN  /\ UNCHANGED gen_calls
        /\ UNCHANGED <<tutor_vars, examiner_vars, rotation_vars, video_vars, extraction_vars, paper_vars>>
        /\ IF state = NoJourney \/ i = 0
           THEN /\ resp' = Response("submit_quiz", u, c, nid, 404, Null, Null)
                /\ UNCHANGED <<active_journeys, ever_completed>>
           ELSE LET quiz == state.nodes[i].quiz_questions
                    total == Len(quiz)
                    next_index == state.current_node_index + 1
                IN  IF total = 0
                    THEN /\ resp' = Response("submit_quiz", u, c, nid, 200, "pass", Null)
                         /\ UNCHANGED <<active_journeys, ever_completed>>
                    ELSE \E answers \in AnswerLists :
                         IF Passed(CorrectCount(quiz, answers), total)
                         THEN /\ ever_completed' = [ever_completed EXCEPT ![u][c] = @ \cup {i}]
                              /\ IF next_index < Len(state.nodes)
                                 THEN /\ active_journeys' =
                                           [active_journeys EXCEPT
                                              ![u][c].nodes[i].status = "completed",
                                              ![u][c].nodes[next_index + 1].status = "unlocked",
                                              ![u][c].current_node_index = next_index]
                                      /\ resp' = Response("submit_quiz", u, c, nid, 200, "pass",
                                                          state.nodes[next_index + 1].id)
                                 ELSE /\ active_journeys' =
                                           [active_journeys EXCEPT
                                              ![u][c].nodes[i].status = "completed"]
                                      /\ resp' = Response("submit_quiz", u, c, nid, 200,
                                                          "pass", Null)
                         ELSE /\ resp' = Response("submit_quiz", u, c, nid, 200, "fail", Null)
                              /\ UNCHANGED <<active_journeys, ever_completed>>

\* The node ids the requests of the model carry.
RequestNodeIds == {NodeIdOf(i) : i \in 1..LongestCurriculum} \cup {UnknownNodeId}

Next ==
    \/ \E u \in Users, c \in CourseIds, out \in CurriculumOutcomes :
          start_journey(u, c, out)
    \/ \E u \in Users, c \in CourseIds, readable \in BOOLEAN, out \in CurriculumOutcomes :
          start_journey_from_file(u, c, readable, out)
    \/ \E u \in Users, c \in CourseIds, nid \in RequestNodeIds :
          get_node_content(u, c, nid)
    \/ \E u \in Users, c \in CourseIds, nid \in RequestNodeIds :
          submit_quiz(u, c, nid)

(***************************************************************************)
(* Part 2: the Tutor workflow (backend/agents/tutor_graph.py) as           *)
(* routes_tutor.py start_session runs it: one graph run at a time, the     *)
(* stages in the order build_tutor_graph wires them.                       *)
(***************************************************************************)
\* Most sub-topics the planner's model call is taken to return.
MaxPlan == 2

\* Merging a stage's returned dict into the graph state.
Merge(state, update) ==
    [k \in (DOMAIN state) \cup (DOMAIN update) |->
        IF k \in DOMAIN update THEN update[k] ELSE state[k]]

\* Most words of a user query.
MaxWords == 3

\* The words the queries of the model are made of, and their spelling: the
\* detectors of lines 69-119 test substrings of the lower-cased query, so a
\* query is compared character by character.  All words are lower-case.
Vocabulary == {"padhao", "hindi", "mein", "in", "audio", "flashcard"}

Spell ==
    [padhao |-> <<"p", "a", "d", "h", "a", "o">>,
     hindi |-> <<"h", "i", "n", "d", "i">>,
     mein |-> <<"m", "e", "i", "n">>,
     me |-> <<"m", "e">>,
     in |-> <<"i", "n">>,
     explain |-> <<"e", "x", "p", "l", "a", "i", "n">>,
     audio |-> <<"a", "u", "d", "i", "o">>,
     flashcard |-> <<"f", "l", "a", "s", "h", "c", "a", "r", "d">>]

Space == <<" ">>

\* A user query: its words, separated by single spaces.
TutorQueries == SeqsUpTo(Vocabulary, MaxWords)

RECURSIVE QueryText(_)
QueryText(words) ==
    IF words = <<>> THEN <<>>
    ELSE IF Len(words) = 1 THEN Spell[words[1]]
    ELSE Spell[words[1]] \o Space \o QueryText(Tail(words))

\* Python's  p in text  on strings.
Contains(text, p) ==
    \E k \in 0..(Len(text) - Len(p)) : SubSeq(text, k + 1, k + Len(p)) = p

\* LANGUAGE_MAP (lines 53-58), for the language the vocabulary names.
LANGUAGE_MAP == [hindi |-> "hi-IN"]

\* INTENT_KEYWORDS (lines 60-66) in its order, for the keywords the
\* vocabulary can spell.
INTENT_KEYWORDS ==
    <<[intent |-> "flashcard", keywords |-> {Spell["flashcard"]}],
      [intent |-> "audio", keywords |-> {Spell["audio"]}]>>

AudioKeywords == INTENT_KEYWORDS[2].keywords

\* Lines 74-80: the first intent, in the order of INTENT_KEYWORDS, one of
\* whose keywords occurs in the query.
detect_intent(query) ==
    LET text == QueryText(query)
        hits == {n \in 1..Len(INTENT_KEYWORDS) :
                    \E kw \in INTENT_KEYWORDS[n].keywords : Contains(text, kw)}
    IN  IF hits = {} THEN "explain"
        ELSE INTENT_KEYWORDS[CHOOSE n \in hits : \A m \in hits : n <= m].intent

\* Lines 91-94: the five patterns tried for a language name.
LanguagePatterns(lang_name) ==
    {Spell["in"] \o Space \o Spell[lang_name],
     Spell[lang_name] \o Space \o Spell["mein"],
     Spell[lang_name] \o Space \o Spell["me"],
     Spell[lang_name] \o Space \o Spell["audio"],
     Spell["explain"] \o Space \o Spell["in"] \o Space \o Spell[lang_name]}

\* Lines 83-98.
detect_language(query) ==
    LET text == QueryText(query)
        named == {lang_name \in DOMAIN LANGUAGE_MAP :
                    \E p \in LanguagePatterns(lang_name) : Contains(text, p)}
    IN  IF named = {} THEN "en-IN"
        ELSE LANGUAGE_MAP[CHOOSE lang_name \in named : TRUE]

\* Lines 101-119: the explicit flag, an audio keyword, or "in <language>".
should_generate_audio(query, explicit_flag) ==
    LET text == QueryText(query)
    IN  \/ explicit_flag
        \/ \E kw \in AudioKeywords : Contains(text, kw)
        \/ \E lang_name \in DOMAIN LANGUAGE_MAP :
              Contains(text, Spell["in"] \o Space \o Spell[lang_name])

\* No graph run has been started.
TutorInit ==
    /\ tutor_pc = "idle"
    /\ tutor_state = <<>>
    /\ tutor_trace = <<>>

\* routes_tutor.py:99-110: the inputs of a run; the graph starts at its
\* entry point.  A run is started once the one before is over.
start_session(query, explicit_flag) ==
    /\ tutor_pc \in {"idle", "END", "raised"}
    /\ tutor_state' =
          [user_query |-> query, user_id |-> "u1", session_name |-> "default",
           plan |-> <<>>, context |-> "", response |-> "",
           generate_audio |-> explicit_flag, language_code |-> "en-IN"]
    /\ tutor_trace' = <<>>
    /\ tutor_pc' = "intent_router"
    /\ UNCHANGED <<journey_vars, examiner_vars, rotation_vars, video_vars, extraction_vars, paper_vars>>

\* NODE 1 makes no external call.
intent_router_node ==
    /\ tutor_pc = "intent_router"
    /\ tutor_trace' = Append(tutor_trace, "intent_router")
    /\ LET query == tutor_state["user_query"]
       IN  tutor_state' = Merge(tutor_state,
              [detected_intent |-> detect_intent(query),
               language_code |-> detect_language(query),
               generate_audio |->
                   should_generate_audio(query, tutor_state["generate_audio"])])
    /\ tutor_pc' = "planner"
    /\ UNCHANGED <<journey_vars, examiner_vars, rotation_vars, video_vars, extraction_vars, paper_vars>>

\* What llm.invoke of line 178 ends in: an exception, or a reply that
\* splits into n sub-topics.
PlannerOutcomes ==
    {[failed |-> TRUE, n |-> 0]} \cup {[failed |-> FALSE, n |-> k] : k \in 0..MaxPlan}

\* NODE 2: the model call of lines 178-181 stands outside any try block, so
\* its exception leaves the stage and ends the graph run.
planner_node(out) ==
    /\ tutor_pc = "planner"
    /\ tutor_trace' = Append(tutor_trace, "planner")
    /\ IF out.failed
       THEN /\ tutor_pc' = "raised"
            /\ UNCHANGED tutor_state
       ELSE /\ tutor_state' = Merge(tutor_state, [plan |-> [i \in 1..out.n |-> "subtopic"]])
            /\ tutor_pc' = "retriever"
    /\ UNCHANGED <<journey_vars, examiner_vars, rotation_vars, video_vars, extraction_vars, paper_vars>>

\* NODE 3: get_retriever or the main query failing is caught (lines
\* 237-239) and leaves an empty context; a failing sub-topic query is
\* passed over (lines 225-229).
retriever_node(failed, found) ==
    /\ tutor_pc = "retriever"
    /\ tutor_trace' = Append(tutor_trace, "retriever")
    /\ tutor_state' = Merge(tutor_state,
          [context |-> IF failed \/ ~found THEN "" ELSE "chunks"])
    /\ tutor_pc' = "generator"
    /\ UNCHANGED <<journey_vars, examiner_vars, rotation_vars, video_vars, extraction_vars, paper_vars>>

\* What llm.invoke of line 382 and the extraction after it end in: an
\* exception of the call; plain text; text with a mermaid block; a json
\* block holding an object; a json block that does not parse (caught at
\* line 407); a json block holding a list or a scalar, on which data.get
\* of line 404 raises AttributeError.
GeneratorOutcomes ==
    {"call_failed", "text", "mermaid", "json_object", "json_invalid", "json_not_object"}

GeneratorRaises(out) == out \in {"call_failed", "json_not_object"}

\* The conditional edge after the generator (lines 460-466).
should_route_to_audio(state) ==
    IF "generate_audio" \in DOMAIN state /\ state["generate_audio"] = TRUE
    THEN "audio"
    ELSE "END"

\* NODE 4.
generator_node(out) ==
    /\ tutor_pc = "generator"
    /\ tutor_trace' = Append(tutor_trace, "generator")
    /\ IF GeneratorRaises(out)
       THEN /\ tutor_pc' = "raised"
            /\ UNCHANGED tutor_state
       ELSE /\ tutor_state' = Merge(tutor_state,
                 [response |-> "lesson",
                  mindmap_source |-> IF out = "mermaid" THEN "mermaid" ELSE Null,
                  flashcards |-> IF out = "json_object" THEN "cards" ELSE Null])
            /\ tutor_pc' = should_route_to_audio(tutor_state')
    /\ UNCHANGED <<journey_vars, examiner_vars, rotation_vars, video_vars, extraction_vars, paper_vars>>

\* NODE 5: a failing speech synthesis is caught (lines 448-450) or already
\* turned into None by SarvamService.generate_audio.
audio_node(synthesized) ==
    /\ tutor_pc = "audio"
    /\ tutor_trace' = Append(tutor_trace, "audio")
    /\ tutor_state' = Merge(tutor_state,
          [audio_base64 |-> IF synthesized THEN "base64" ELSE Null])
    /\ tutor_pc' = "END"
    /\ UNCHANGED <<journey_vars, examiner_vars, rotation_vars, video_vars, extraction_vars, paper_vars>>

TutorNext ==
    \/ \E query \in TutorQueries, explicit_flag \in BOOLEAN :
          start_session(query, explicit_flag)
    \/ intent_router_node
    \/ \E out \in PlannerOutcomes : planner_node(out)
    \/ \E failed \in BOOLEAN, found \in BOOLEAN : retriever_node(failed, found)
    \/ \E out \in GeneratorOutcomes : generator_node(out)
    \/ \E synthesized \in BOOLEAN : audio_node(synthesized)

(***************************************************************************)
(* Part 3: the Examiner workflow (backend/agents/examiner_graph.py):       *)
(* blueprint -> selector -> assembler.  The selector's three nested loops  *)
(* are stepped one iteration at a time, since every query of the middle    *)
(* loop is an external call.                                               *)
(***************************************************************************)
\* Most modules of a blueprint the model call is taken to return.
MaxModules == 2
\* Most documents one similarity search is taken to return (k=5 in line 175).
MaxHits == 2

\* examiner_graph.py:193   current_marks + q_marks > target_marks + 5
QuotaSlack == 5
\* examiner_graph.py:190   doc.metadata.get("marks", 5)
DefaultMarks == 5
\* examiner_graph.py:243, 245   the limits of Part A and Part B
PartALimit == 5
PartBLimit == 10

\* The sum of a sequence of numbers.
RECURSIVE SumSeq(_)
SumSeq(s) == IF s = <<>> THEN 0 ELSE Head(s) + SumSeq(Tail(s))

\* The exam bank: page_content is kept as its first 100 characters (head)
\* and the rest (tail); has_marks tells whether the metadata holds "marks".
ExamBank ==
    {[head |-> "a", tail |-> "1", has_marks |-> TRUE, marks |-> 3],
     [head |-> "a", tail |-> "2", has_marks |-> TRUE, marks |-> 8],
     [head |-> "b", tail |-> "", has_marks |-> FALSE, marks |-> 0],
     [head |-> "c", tail |-> "", has_marks |-> TRUE, marks |-> 12]}

\* hash(doc.page_content[:100]): equal heads give equal keys.
q_hash(doc) == doc.head

\* vector_store.similarity_search(query, k): an exception, or up to MaxHits
\* different documents of the bank in any order.
SearchOutcomes ==
    {[failed |-> TRUE, docs |-> <<>>]} \cup
    {[failed |-> FALSE, docs |-> d] :
        d \in {x \in SeqsUpTo(ExamBank, MaxHits) :
                 \A i, j \in 1..Len(x) : i # j => x[i] # x[j]}}

\* Lines 126-131.
FallbackBlueprint ==
    <<[module |-> "Core Concepts", marks |-> 30, topics |-> <<"Fundamentals", "Definitions">>],
      [module |-> "Applications", marks |-> 25, topics |-> <<"Practical applications">>],
      [module |-> "Advanced Topics", marks |-> 25, topics |-> <<"Complex concepts">>],
      [module |-> "Problem Solving", marks |-> 20, topics |-> <<"Numerical problems">>]>>

\* The modules a parsed blueprint of the model is made of.
BlueprintItems ==
    [module : {"Unit"}, marks : {5, 10}, topics : {<<>>, <<"Topic">>}]

\* What lines 94-113 end in: the model call raises; the reply does not
\* parse as JSON; it parses to something that is not a list; it parses to
\* a list (possibly empty) of modules.
BlueprintOutcomes ==
    {[kind |-> k, items |-> <<>>] : k \in {"call_failed", "unparsable", "not_list"}} \cup
    {[kind |-> "list", items |-> b] : b \in SeqsUpTo(BlueprintItems, MaxModules)}

\* Line 116 with the length test left out.
BlueprintUsable_any_list(out) == out.kind = "list"

\* Lines 113-117: the reply parsed and is a non-empty list.
BlueprintUsable(out) == out.kind = "list" /\ Len(out.items) > 0

\* selector_node's locals before the stage runs.
SelIdle ==
    [item_index |-> 0, target_marks |-> 0, current_marks |-> 0,
     queries |-> <<>>, docs |-> <<>>,
     selected_questions |-> <<>>, used_question_hashes |-> {},
     picks |-> <<>>, quota_skipped |-> {}]

\* History of a run: what the blueprint call ended in, whether a search
\* failed, the stages entered.
ExamHistIdle ==
    [blueprint_out |-> [kind |-> "none", items |-> <<>>],
     search_failed |-> FALSE, stages |-> <<>>]

ExaminerInit ==
    /\ exam_pc = "idle"
    /\ exam_state = <<>>
    /\ sel = SelIdle
    /\ exam_hist = ExamHistIdle

\* examiner_graph.invoke({"syllabus_text": ...}): the run starts at the
\* entry point set in line 320.
examiner_invoke ==
    /\ exam_pc \in {"idle", "END"}
    /\ exam_state' = [syllabus_text |-> "syllabus"]
    /\ sel' = SelIdle
    /\ exam_hist' = ExamHistIdle
    /\ exam_pc' = "blueprint"
    /\ UNCHANGED <<journey_vars, tutor_vars, rotation_vars, video_vars, extraction_vars, paper_vars>>

\* NODE 1: everything from the model call to the validation sits in one
\* try block whose handler installs the fallback blueprint.
blueprint_node(out) ==
    /\ exam_pc = "blueprint"
    /\ exam_state' = Merge(exam_state,
          [blueprint |-> IF BlueprintUsable(out) THEN out.items ELSE FallbackBlueprint])
    /\ exam_hist' = [exam_hist EXCEPT !.blueprint_out = out,
                                      !.stages = Append(@, "blueprint")]
    /\ exam_pc' = "selector"
    /\ UNCHANGED sel
    /\ UNCHANGED <<journey_vars, tutor_vars, rotation_vars, video_vars, extraction_vars, paper_vars>>

\* Lines 153-156: the store handle and the two empty collections.
selector_node ==
    /\ exam_pc = "selector"
    /\ sel' = SelIdle
    /\ exam_hist' = [exam_hist EXCEPT !.stages = Append(@, "selector")]
    /\ exam_pc' = "for_item"
    /\ UNCHANGED exam_state
    /\ UNCHANGED <<journey_vars, tutor_vars, rotation_vars, video_vars, extraction_vars, paper_vars>>

\* Lines 158-167, 215: the next module of the blueprint starts with
\* current_marks = 0 and the queries [module] + topics; after the last one
\* the stage returns selected_questions.
selector_for_item ==
    /\ exam_pc = "for_item"
    /\ LET blueprint == exam_state["blueprint"]
           i == sel.item_index + 1
       IN  IF i <= Len(blueprint)
           THEN /\ sel' = [sel EXCEPT !.item_index = i,
                                      !.target_marks = blueprint[i].marks,
                                      !.current_marks = 0,
                                      !.queries = <<blueprint[i].module>> \o blueprint[i].topics,
                                      !.docs = <<>>,
                                      !.picks = Append(@, <<>>)]
                /\ exam_pc' = "for_query"
                /\ UNCHANGED exam_state
           ELSE /\ exam_state' = Merge(exam_state,
                     [selected_questions |-> sel.selected_questions])
                /\ exam_pc' = "assembler"
                /\ UNCHANGED sel
    /\ UNCHANGED exam_hist
    /\ UNCHANGED <<journey_vars, tutor_vars, rotation_vars, video_vars, extraction_vars, paper_vars>>

\* Lines 169-178: one turn of the query loop.  The loop ends when the
\* queries are used up or the module's marks are reached; a search that
\* raises is skipped.
selector_for_query(out) ==
    /\ exam_pc = "for_query"
    /\ IF sel.queries = <<>> \/ sel.current_marks >= sel.target_marks
       THEN /\ exam_pc' = "for_item"
            /\ UNCHANGED <<sel, exam_hist>>
       ELSE IF out.failed
       THEN /\ sel' = [sel EXCEPT !.queries = Tail(@)]
            /\ exam_hist' = [exam_hist EXCEPT !.search_failed = TRUE]
            /\ exam_pc' = "for_query"
       ELSE /\ sel' = [sel EXCEPT !.queries = Tail(@), !.docs = out.docs]
            /\ exam_pc' = "for_doc"
            /\ UNCHANGED exam_hist
    /\ UNCHANGED exam_state
    /\ UNCHANGED <<journey_vars, tutor_vars, rotation_vars, video_vars, extraction_vars, paper_vars>>

\* Line 186 with the test left out: no document counts as seen.
AlreadyUsed_never(h, used) == FALSE

\* Line 186.
AlreadyUsed(h, used) == h \in used

\* Line 193 with the test left out: every new document fits.
OverQuota_never(current_marks, q_marks, target_marks) == FALSE

\* Line 193.
OverQuota(current_marks, q_marks, target_marks) ==
    current_marks + q_marks > target_marks + QuotaSlack

\* Lines 197-206: the question built from a document.
ExamQuestion(doc, q_marks) ==
    [text |-> [head |-> doc.head, tail |-> doc.tail], marks |-> q_marks]

\* Lines 180-210 with the key recorded only once the document has passed
\* the test of line 193.
selector_for_doc_records_late ==
    /\ exam_pc = "for_doc"
    /\ IF sel.docs = <<>> \/ sel.current_marks >= sel.target_marks
       THEN /\ exam_pc' = "for_query"
            /\ sel' = [sel EXCEPT !.docs = <<>>]
       ELSE LET doc == Head(sel.docs)
                h == q_hash(doc)
                q_marks == IF doc.has_marks THEN doc.marks ELSE DefaultMarks
            IN  /\ exam_pc' = "for_doc"
                /\ IF AlreadyUsed(h, sel.used_question_hashes)
                   THEN sel' = [sel EXCEPT !.docs = Tail(@)]
                   ELSE IF OverQuota(sel.current_marks, q_marks, sel.target_marks)
                   THEN sel' = [sel EXCEPT !.docs = Tail(@),
                                           !.quota_skipped = @ \cup {h}]
                   ELSE sel' = [sel EXCEPT
                                  !.docs = Tail(@),
                                  !.used_question_hashes = @ \cup {h},
                                  !.selected_questions = Append(@, ExamQuestion(doc, q_marks)),
                                  !.current_marks = @ + q_marks,
                                  !.picks[sel.item_index] = Append(@, q_marks)]
    /\ UNCHANGED <<exam_state, exam_hist>>
    /\ UNCHANGED <<journey_vars, tutor_vars, rotation_vars, video_vars, extraction_vars, paper_vars>>

\* Lines 180-210: one turn of the document loop.  The key of a document is
\* recorded before its marks are looked at; quota_skipped is the history of
\* the keys passed over at line 193.
selector_for_doc ==
    /\ exam_pc = "for_doc"
    /\ IF sel.docs = <<>> \/ sel.current_marks >= sel.target_marks
       THEN /\ exam_pc' = "for_query"
            /\ sel' = [sel EXCEPT !.docs = <<>>]
       ELSE LET doc == Head(sel.docs)
                h == q_hash(doc)
                q_marks == IF doc.has_marks THEN doc.marks ELSE DefaultMarks
            IN  /\ exam_pc' = "for_doc"
                /\ IF AlreadyUsed(h, sel.used_question_hashes)
                   THEN sel' = [sel EXCEPT !.docs = Tail(@)]
                   ELSE IF OverQuota(sel.current_marks, q_marks, sel.target_marks)
                   THEN sel' = [sel EXCEPT !.docs = Tail(@),
                                           !.used_question_hashes = @ \cup {h},
                                           !.quota_skipped = @ \cup {h}]
                   ELSE sel' = [sel EXCEPT
                                  !.docs = Tail(@),
                                  !.used_question_hashes = @ \cup {h},
                                  !.selected_questions = Append(@, ExamQuestion(doc, q_marks)),
                                  !.current_marks = @ + q_marks,
                                  !.picks[sel.item_index] = Append(@, q_marks)]
    /\ UNCHANGED <<exam_state, exam_hist>>
    /\ UNCHANGED <<journey_vars, tutor_vars, rotation_vars, video_vars, extraction_vars, paper_vars>>

\* Lines 243-248 with Part A ending below its limit.
PartOf_strict(marks) ==
    IF marks < PartALimit THEN "A" ELSE IF marks <= PartBLimit THEN "B" ELSE "C"

\* Lines 243-248.
PartOf(marks) ==
    IF marks <= PartALimit THEN "A" ELSE IF marks <= PartBLimit THEN "B" ELSE "C"

MarksOf(questions) == [i \in 1..Len(questions) |-> questions[i].marks]

\* One part of the structure (lines 262-279); title and instructions are
\* fixed texts and left out.
ExamPart(questions, part) ==
    LET chosen == SelectSeq(questions, LAMBDA q : PartOf(q.marks) = part)
    IN  [questions |-> chosen, total_marks |-> SumSeq(MarksOf(chosen))]

\* NODE 3.
assembler_node ==
    /\ exam_pc = "assembler"
    /\ LET questions == exam_state["selected_questions"]
           part_a == ExamPart(questions, "A")
           part_b == ExamPart(questions, "B")
           part_c == ExamPart(questions, "C")
       IN  exam_state' = Merge(exam_state,
              [final_exam_structure |->
                 [PartA |-> part_a, PartB |-> part_b, PartC |-> part_c,
                  metadata |->
                     [total_questions |-> Len(questions),
                      total_marks |-> part_a.total_marks + part_b.total_marks
                                         + part_c.total_marks]]])
    /\ exam_hist' = [exam_hist EXCEPT !.stages = Append(@, "assembler")]
    /\ exam_pc' = "END"
    /\ UNCHANGED sel
    /\ UNCHANGED <<journey_vars, tutor_vars, rotation_vars, video_vars, extraction_vars, paper_vars>>

ExaminerNext ==
    \/ examiner_invoke
    \/ \E out \in BlueprintOutcomes : blueprint_node(out)
    \/ selector_node
    \/ selector_for_item
    \/ \E out \in SearchOutcomes : selector_for_query(out)
    \/ selector_for_doc
    \/ assembler_node

(***************************************************************************)
(* Part 4: the key-rotating model call of the exam ingestion               *)
(* (backend/rag/ingestion_exam.py): GroqKeyManager and                     *)
(* extract_with_rotation.                                                  *)
(***************************************************************************)
\* max_retries of the calls of the model (the source's default is 10).
MaxRetries == 3
\* Number of keys in settings.groq_keys_list (at least one, line 22).
NumKeys == 2

\* What one llm.invoke ends in: a response, or an exception named by the
\* marker its lower-cased message holds ("500" for none of the four).
AttemptOutcomes == {"ok", "429", "rate_limit", "401", "invalid_api_key", "500"}

\* Lines 80 and 86: the two branches that rotate.
IsRateLimit(msg) == msg \in {"429", "rate_limit"}
IsInvalidKey(msg) == msg \in {"401", "invalid_api_key"}

\* rotate_key without the increment.
rotate_key_stay(index) == index

\* GroqKeyManager.rotate_key: the index after the call.
rotate_key(index) == (index + 1) % NumKeys

RotIdle ==
    [pc |-> "idle", attempt |-> 0, llm_key |-> 0, attempts |-> <<>>, error |-> Null]

\* _key_manager = GroqKeyManager() at import; no call is running.
RotationInit ==
    /\ key_manager = [current_index |-> 0]
    /\ rot = RotIdle

\* Lines 70-72: the client is built on the current key.  A call starts
\* once the one before is over (ingest_exam_papers calls one at a time).
extract_with_rotation ==
    /\ rot.pc \in {"idle", "returned", "raised"}
    /\ rot' = [pc |-> "loop", attempt |-> 0, llm_key |-> key_manager.current_index,
               attempts |-> <<>>, error |-> Null]
    /\ UNCHANGED key_manager
    /\ UNCHANGED <<journey_vars, tutor_vars, examiner_vars, video_vars, extraction_vars, paper_vars>>

\* Lines 74-93: one turn of the retry loop.  After the last turn the loop
\* is left and line 93 raises.
rotation_attempt(out) ==
    /\ rot.pc = "loop"
    /\ rot.attempt < MaxRetries
    /\ LET made == Append(rot.attempts, [key |-> rot.llm_key, outcome |-> out])
       IN  IF out = "ok"
           THEN /\ rot' = [rot EXCEPT !.pc = "returned", !.attempts = made]
                /\ UNCHANGED key_manager
           ELSE IF IsRateLimit(out) \/ IsInvalidKey(out)
           THEN LET new_index == rotate_key(key_manager.current_index)
                    last == rot.attempt + 1 = MaxRetries
                IN  /\ key_manager' = [key_manager EXCEPT !.current_index = new_index]
                    /\ rot' = [rot EXCEPT
                                 !.pc = IF last THEN "raised" ELSE "loop",
                                 !.error = IF last THEN "max_retries" ELSE Null,
                                 !.attempt = @ + 1,
                                 !.llm_key = new_index,
                                 !.attempts = made]
           ELSE /\ rot' = [rot EXCEPT !.pc = "raised", !.error = out, !.attempts = made]
                /\ UNCHANGED key_manager
    /\ UNCHANGED <<journey_vars, tutor_vars, examiner_vars, video_vars, extraction_vars, paper_vars>>

RotationNext ==
    \/ extract_with_rotation
    \/ \E out \in AttemptOutcomes : rotation_attempt(out)

(***************************************************************************)
(* Part 5: video lecture jobs (backend/services/video_generator.py and     *)
(* backend/api/routes_video.py).  Handlers and background tasks share one  *)
(* event loop, so a task runs without interruption from one await to the   *)
(* next; each action below is one such stretch.                            *)
(***************************************************************************)
\* Most scenes a lecture script is taken to hold.
MaxScenes == 3

\* The values str(uuid.uuid4())[:8] takes.
JobIds == {"j1", "j2"}

\* video_generator.py:386   50 + (i + 1) * (20 // len(scenes))
FetchBase == 50
FetchSpan == 20

\* The statuses and progress values written by lines 346-400.
ProgressScript == 10
ProgressAudio == 30
ProgressAssembling == 80
ProgressDone == 100

\* Line 386 with the span multiplied by the number of scenes.
scene_progress_multiplied(i, n) == FetchBase + (i + 1) * (FetchSpan * n)

\* Line 386 counting the scenes still to fetch.
scene_progress_backward(i, n) == FetchBase + (n - (i + 1)) * (FetchSpan \div n)

\* Line 386, for the scene of index i (from 0) out of n.
scene_progress(i, n) == FetchBase + (i + 1) * (FetchSpan \div n)

TaskIdle == [pc |-> "none", scenes |-> 0, i |-> 0]

NoPoll ==
    [job_id |-> "none", http |-> 0, status |-> Null, progress |-> 0,
     message |-> Null, video_url |-> Null, error |-> Null]

\* self.jobs = {} (line 40); no task is scheduled; nothing was polled.
VideoInit ==
    /\ jobs = <<>>
    /\ task = [j \in JobIds |-> TaskIdle]
    /\ poll = NoPoll

\* POST /video/generate (lines 77-95): the record is registered as queued
\* and the background task scheduled.  A failing retrieval is caught and
\* only empties the context.  The new id is taken to be unused.
generate_video(job_id) ==
    /\ job_id \notin DOMAIN jobs
    /\ jobs' = (job_id :> [status |-> "queued", progress |-> 0,
                           message |-> "Video generation queued..."]) @@ jobs
    /\ task' = [task EXCEPT ![job_id].pc = "scheduled"]
    /\ UNCHANGED poll
    /\ UNCHANGED <<journey_vars, tutor_vars, examiner_vars, rotation_vars, extraction_vars, paper_vars>>

\* The failure branch putting the job back in the queue.
FailedFrom_requeued(record) == Merge(record, [status |-> "queued", error |-> "error"])

\* The failure branch (lines 411-414): status and error are overwritten,
\* progress and message stay.
FailedFrom(record) == Merge(record, [status |-> "failed", error |-> "error"])

\* Lines 339-358.  job_dir.mkdir (lines 343-344) stands before the try
\* block: when it raises (the output directory was removed, or cannot be
\* written) the exception leaves the task and the record is never touched.
\* Otherwise the record is replaced ("starting") and at once set to
\* generating_script; the script call then suspends, or raises before it
\* suspends (no GROQ_API_KEY, line 61).
task_start(job_id, dir_made, key_configured) ==
    /\ task[job_id].pc = "scheduled"
    /\ LET started == [status |-> "starting", progress |-> 0,
                       message |-> "Starting video generation..."]
           scripting == Merge(started,
                          [status |-> "generating_script", progress |-> ProgressScript,
                           message |-> "Generating lecture script..."])
       IN  IF ~dir_made
           THEN /\ jobs' = jobs
                /\ task' = [task EXCEPT ![job_id].pc = "raised"]
           ELSE IF key_configured
           THEN /\ jobs' = [jobs EXCEPT ![job_id] = scripting]
                /\ task' = [task EXCEPT ![job_id].pc = "script"]
           ELSE /\ jobs' = [jobs EXCEPT ![job_id] = FailedFrom(scripting)]
                /\ task' = [task EXCEPT ![job_id].pc = "done"]
    /\ UNCHANGED poll
    /\ UNCHANGED <<journey_vars, tutor_vars, examiner_vars, rotation_vars, extraction_vars, paper_vars>>

\* len(script.get("scenes", [])): up to MaxScenes scenes, or more scenes
\* than the span of line 386 has points.
SceneCounts == (0..MaxScenes) \cup {FetchSpan + 1}

\* Lines 358-368: the script call returns a script of n scenes (parsed, or
\* the three-scene fallback of lines 131-138) or raises.
task_script_done(job_id, failed, n) ==
    /\ task[job_id].pc = "script"
    /\ IF failed
       THEN /\ jobs' = [jobs EXCEPT ![job_id] = FailedFrom(@)]
            /\ task' = [task EXCEPT ![job_id].pc = "done"]
       ELSE /\ jobs' = [jobs EXCEPT ![job_id] = Merge(@,
                          [status |-> "generating_audio", progress |-> ProgressAudio,
                           message |-> "Generating narration audio..."])]
            /\ task' = [task EXCEPT ![job_id].pc = "audio", ![job_id].scenes = n]
    /\ UNCHANGED poll
    /\ UNCHANGED <<journey_vars, tutor_vars, examiner_vars, rotation_vars, extraction_vars, paper_vars>>

\* Lines 390-402 with the video_url written before the assembly.
Assembled_url_first(record, job_id, assembled) ==
    LET assembling == Merge(record,
                        [status |-> "assembling", progress |-> ProgressAssembling,
                         message |-> "Assembling final video...",
                         video_url |-> job_id])
    IN  IF assembled
        THEN Merge(assembling,
                [status |-> "completed", progress |-> ProgressDone,
                 message |-> "Video lecture ready!", video_path |-> job_id])
        ELSE Merge(assembling, [status |-> "failed", error |-> "error"])

\* Lines 390-402 and 411-414: assemble_video is an ordinary call, so the
\* record goes from assembling to completed or failed without an await in
\* between.
Assembled(record, job_id, assembled) ==
    LET assembling == Merge(record,
                        [status |-> "assembling", progress |-> ProgressAssembling,
                         message |-> "Assembling final video..."])
    IN  IF assembled
        THEN Merge(assembling,
                [status |-> "completed", progress |-> ProgressDone,
                 message |-> "Video lecture ready!",
                 video_path |-> job_id, video_url |-> job_id])
        ELSE FailedFrom(assembling)

\* Lines 368-382: the audio call returns or raises; with scenes the first
\* fetch suspends, without any the video is assembled at once.
task_audio_done(job_id, failed, assembled) ==
    /\ task[job_id].pc = "audio"
    /\ LET fetching == Merge(jobs[job_id],
                         [status |-> "fetching_videos", progress |-> FetchBase,
                          message |-> "Fetching stock footage..."])
       IN  IF failed
           THEN /\ jobs' = [jobs EXCEPT ![job_id] = FailedFrom(@)]
                /\ task' = [task EXCEPT ![job_id].pc = "done"]
           ELSE IF task[job_id].scenes > 0
           THEN /\ jobs' = [jobs EXCEPT ![job_id] = fetching]
                /\ task' = [task EXCEPT ![job_id].pc = "fetch", ![job_id].i = 0]
           ELSE /\ jobs' = [jobs EXCEPT ![job_id] = Assembled(fetching, job_id, assembled)]
                /\ task' = [task EXCEPT ![job_id].pc = "done"]
    /\ UNCHANGED poll
    /\ UNCHANGED <<journey_vars, tutor_vars, examiner_vars, rotation_vars, extraction_vars, paper_vars>>

\* Lines 382-402: a fetch returns (fetch_stock_video catches its own
\* errors); the progress moves on; after the last scene the video is
\* assembled.
task_fetch_done(job_id, assembled) ==
    /\ task[job_id].pc = "fetch"
    /\ LET i == task[job_id].i
           n == task[job_id].scenes
           fetched == Merge(jobs[job_id], [progress |-> scene_progress(i, n)])
       IN  IF i + 1 < n
           THEN /\ jobs' = [jobs EXCEPT ![job_id] = fetched]
                /\ task' = [task EXCEPT ![job_id].i = i + 1]
           ELSE /\ jobs' = [jobs EXCEPT ![job_id] = Assembled(fetched, job_id, assembled)]
                /\ task' = [task EXCEPT ![job_id].pc = "done"]
    /\ UNCHANGED poll
    /\ UNCHANGED <<journey_vars, tutor_vars, examiner_vars, rotation_vars, extraction_vars, paper_vars>>

\* get_job_status answering every id with the record of one job.
get_job_status_any(job_id) ==
    IF job_id \notin DOMAIN jobs
    THEN [status |-> "not_found", error |-> "Job not found"]
    ELSE jobs[CHOOSE j \in DOMAIN jobs : TRUE]

\* Lines 421-425.
get_job_status(job_id) ==
    IF job_id \notin DOMAIN jobs
    THEN [status |-> "not_found", error |-> "Job not found"]
    ELSE jobs[job_id]

\* status.get(key, default) of lines 120-124.
GetOr(record, key, default) == IF key \in DOMAIN record THEN record[key] ELSE default

\* GET /video/status/{job_id}
get_video_status(job_id) ==
    /\ LET status == get_job_status(job_id)
       IN  IF status["status"] = "not_found"
           THEN poll' = [NoPoll EXCEPT !.job_id = job_id, !.http = 404]
           ELSE poll' = [job_id |-> job_id, http |-> 200,
                         status |-> GetOr(status, "status", "unknown"),
                         progress |-> GetOr(status, "progress", 0),
                         message |-> GetOr(status, "message", ""),
                         video_url |-> GetOr(status, "video_url", Null),
                         error |-> GetOr(status, "error", Null)]
    /\ UNCHANGED <<jobs, task>>
    /\ UNCHANGED <<journey_vars, tutor_vars, examiner_vars, rotation_vars, extraction_vars, paper_vars>>

\* generate_video_task (routes_video.py:44-51): the steps of one job's
\* background task, which the event loop resumes whenever the call it
\* awaits has returned or raised.
generate_video_task(job_id) ==
    \/ \E dir_made \in BOOLEAN, key_configured \in BOOLEAN :
          task_start(job_id, dir_made, key_configured)
    \/ \E failed \in BOOLEAN, n \in SceneCounts : task_script_done(job_id, failed, n)
    \/ \E failed \in BOOLEAN, assembled \in BOOLEAN :
          task_audio_done(job_id, failed, assembled)
    \/ \E assembled \in BOOLEAN : task_fetch_done(job_id, assembled)

VideoNext ==
    \/ \E job_id \in JobIds : generate_video(job_id)
    \/ \E job_id \in JobIds : generate_video_task(job_id)
    \/ \E job_id \in JobIds : get_video_status(job_id)

(***************************************************************************)
(* Part 6: the extraction of a JSON payload from a model reply, as         *)
(* blueprint_node (examiner_graph.py:100-132) and design_curriculum        *)
(* (journey_graph.py:88-142) do it, each followed by its own fallback.     *)
(* A reply is a sequence of tokens; the separators of JSON are left out,   *)
(* so that values standing side by side inside brackets are a list.        *)
(***************************************************************************)
\* Most tokens of a model reply.
MaxTokens == 4

\* Prose without brackets, braces or fences; the opening fence (three
\* backquotes, json, newline); three bare backquotes; the two square
\* brackets; a JSON object with members and no square bracket inside; the
\* empty JSON object.
ReplyTokens == {"prose", "fence_json", "fence", "[", "]", "obj", "{}"}

ModelReplies == SeqsUpTo(ReplyTokens, MaxTokens)

\* The search for a fenced json block (line 100): the leftmost opening
\* fence that has three backquotes somewhere after it (those of a later
\* opening fence will do), and the nearest such place.
FenceOpenings(content) ==
    {i \in 1..Len(content) :
        /\ content[i] = "fence_json"
        /\ \E j \in (i + 1)..Len(content) : content[j] \in {"fence", "fence_json"}}

HasFence(content) == FenceOpenings(content) # {}

\* json_match.group(1)
FenceInterior(content) ==
    LET i == CHOOSE i \in FenceOpenings(content) : \A k \in FenceOpenings(content) : i <= k
        closings == {j \in (i + 1)..Len(content) : content[j] \in {"fence", "fence_json"}}
        j == CHOOSE j \in closings : \A k \in closings : j <= k
    IN  SubSeq(content, i + 1, j - 1)

\* re.search(r"\[.*\]", content, re.DOTALL): greedy, from the first opening
\* bracket to the last closing bracket after it.
HasBracketSpan(content) ==
    \E i, j \in 1..Len(content) : i < j /\ content[i] = "[" /\ content[j] = "]"

\* array_match.group(0)
BracketSpan(content) ==
    LET opens == {i \in 1..Len(content) : content[i] = "["}
        closes == {j \in 1..Len(content) : content[j] = "]"}
        i == CHOOSE i \in opens : \A k \in opens : i <= k
        j == CHOOSE j \in closes : \A k \in closes : j >= k
    IN  SubSeq(content, i, j)

\* The extraction shared by the two stages: the fence interior, else the
\* bracket span, else the reply as it is.
extract_json(content) ==
    IF HasFence(content) THEN FenceInterior(content)
    ELSE IF HasBracketSpan(content) THEN BracketSpan(content)
    ELSE content

\* JSON texts: an object, or a bracketed run of JSON texts.
RECURSIVE IsJsonValue(_), IsJsonValues(_)
IsJsonValue(t) ==
    \/ t \in {<<"obj">>, <<"{}">>}
    \/ /\ Len(t) >= 2
       /\ t[1] = "["
       /\ t[Len(t)] = "]"
       /\ IsJsonValues(SubSeq(t, 2, Len(t) - 1))

IsJsonValues(t) ==
    \/ t = <<>>
    \/ \E k \in 1..Len(t) :
          IsJsonValue(SubSeq(t, 1, k)) /\ IsJsonValues(SubSeq(t, k + 1, Len(t)))

\* The Python type json.loads gives for a JSON text.
JsonKind(t) ==
    IF t = <<"obj">> THEN "dict"
    ELSE IF t = <<"{}">> THEN "empty_dict"
    ELSE "list"

\* The kinds of the values standing in a run of JSON texts.
RECURSIVE JsonItems(_)
JsonItems(t) ==
    IF t = <<>> THEN <<>>
    ELSE LET k == CHOOSE k \in 1..Len(t) :
                     IsJsonValue(SubSeq(t, 1, k)) /\ IsJsonValues(SubSeq(t, k + 1, Len(t)))
         IN  <<JsonKind(SubSeq(t, 1, k))>> \o JsonItems(SubSeq(t, k + 1, Len(t)))

NotJson == [ok |-> FALSE, kind |-> "none", items |-> <<>>]

\* json.loads(content): raises (ok is false) or gives a value.
json_loads(t) ==
    IF ~IsJsonValue(t) THEN NotJson
    ELSE [ok |-> TRUE, kind |-> JsonKind(t),
          items |-> IF JsonKind(t) = "list"
                    THEN JsonItems(SubSeq(t, 2, Len(t) - 1)) ELSE <<>>]

\* A module object of a parsed blueprint.
ParsedModule == [module |-> "Unit", marks |-> 10, topics |-> <<>>]

\* examiner_graph.py:94-122: what the try block of blueprint_node ends in.
\* After the validation of line 116 the loop of line 121 calls item.get on
\* every item and raises on one that is no object.
blueprint_outcome(failed, reply) ==
    LET value == json_loads(extract_json(reply))
    IN  IF failed THEN [kind |-> "call_failed", items |-> <<>>]
        ELSE IF ~value.ok THEN [kind |-> "unparsable", items |-> <<>>]
        ELSE IF value.kind # "list" THEN [kind |-> "not_list", items |-> <<>>]
        ELSE IF \E i \in 1..Len(value.items) : value.items[i] = "list"
        THEN [kind |-> "item_not_object", items |-> <<>>]
        ELSE [kind |-> "list", items |-> [i \in 1..Len(value.items) |-> ParsedModule]]

\* journey_graph.py:82-128: what the try block of design_curriculum ends
\* in.  Line 103 raises on an empty extraction.  enumerate(data) runs over
\* the items of a list or the keys of an object, and item.get raises on an
\* item that is a list or a key, so only a list of objects, an empty list
\* and an empty object come through.
curriculum_outcome(failed, reply) ==
    LET content == extract_json(reply)
        value == json_loads(content)
        raised == [parsed |-> FALSE, n |-> 0]
    IN  IF failed \/ content = <<>> \/ ~value.ok THEN raised
        ELSE IF value.kind = "dict" THEN raised
        ELSE IF value.kind = "empty_dict" THEN [parsed |-> TRUE, n |-> 0]
        ELSE IF \E i \in 1..Len(value.items) : value.items[i] = "list" THEN raised
        ELSE [parsed |-> TRUE, n |-> Len(value.items)]

ExtIdle ==
    [caller |-> "none", failed |-> FALSE, reply |-> <<>>, value |-> NotJson,
     used_fallback |-> FALSE, result_len |-> 0]

ExtractionInit == ext = ExtIdle

\* blueprint_node on a given reply of the model: the blueprint it returns.
\* The extraction keeps nothing from one reply to the next, so every reply
\* is run from the state after construction.
blueprint_node_reply(failed, reply) ==
    /\ ext = ExtIdle
    /\ LET out == blueprint_outcome(failed, reply)
           blueprint == IF BlueprintUsable(out) THEN out.items ELSE FallbackBlueprint
       IN  ext' = [caller |-> "blueprint_node", failed |-> failed, reply |-> reply,
                   value |-> IF failed THEN NotJson ELSE json_loads(extract_json(reply)),
                   used_fallback |-> ~BlueprintUsable(out),
                   result_len |-> Len(blueprint)]
    /\ UNCHANGED <<journey_vars, tutor_vars, examiner_vars, rotation_vars, video_vars,
                   paper_vars>>

\* design_curriculum on a given reply of the model: the nodes it returns.
design_curriculum_reply(failed, reply) ==
    /\ ext = ExtIdle
    /\ LET out == curriculum_outcome(failed, reply)
           nodes == design_curriculum(out)
       IN  ext' = [caller |-> "design_curriculum", failed |-> failed, reply |-> reply,
                   value |-> IF failed THEN NotJson ELSE json_loads(extract_json(reply)),
                   used_fallback |-> ~out.parsed,
                   result_len |-> Len(nodes)]
    /\ UNCHANGED <<journey_vars, tutor_vars, examiner_vars, rotation_vars, video_vars,
                   paper_vars>>

ExtractionNext ==
    \/ \E failed \in BOOLEAN, reply \in ModelReplies : blueprint_node_reply(failed, reply)
    \/ \E failed \in BOOLEAN, reply \in ModelReplies : design_curriculum_reply(failed, reply)

(***************************************************************************)
(* Part 7: the slot filling of the exam route                              *)
(* (backend/services/question_selector.py build_exam_from_syllabus, called *)
(* by routes_exam.py generate_exam).  One call is followed from its        *)
(* arguments to its return; it keeps nothing between calls.                *)
(***************************************************************************)
\* Most units of an exam structure.
MaxUnits == 2

\* models/exam.py ExamStructure, with unit_count >= 0 and at least one label.
ExamStructures ==
    [unit_count : 0..MaxUnits,
     subquestion_labels : {<<"a">>, <<"a", "b">>},
     has_or_choice : BOOLEAN,
     marks_per_subquestion : {5, 7}]

\* request.subject_filter: None or "" (no filter), or a subject code.
SubjectFilters == {<<>>, <<"c", "s">>, <<"C", "S">>}

\* str.lower() on the letters the model's file names and filters use.
LowerChar == [C |-> "c", S |-> "s", M |-> "m", c |-> "c", s |-> "s", m |-> "m"]

Lower(str) == [k \in 1..Len(str) |-> LowerChar[str[k]]]

\* The defaults of lines 97 and 109.
Unknown == <<"U", "n", "k", "n", "o", "w", "n">>
System == <<"S", "y", "s", "t", "e", "m">>

\* Documents of the exam question bank: page_content and metadata.  Two of
\* them have the same content; one has no source_file.
BankDoc(page_content, has_source, source_file) ==
    [page_content |-> page_content, has_source |-> has_source, source_file |-> source_file]

PaperBank ==
    [cs1 |-> BankDoc("q1", TRUE, <<"C", "S">>),
     cs2 |-> BankDoc("q2", TRUE, <<"c", "s", "m">>),
     math |-> BankDoc("q1", TRUE, <<"M">>),
     bare |-> BankDoc("q3", FALSE, <<>>)]

\* What vector_store.similarity_search(query, k=25) may return, best first.
SearchResults ==
    {<<>>,
     <<PaperBank.math, PaperBank.cs1, PaperBank.cs2>>,
     <<PaperBank.bare, PaperBank.cs2>>,
     <<PaperBank.math, PaperBank.bare>>,
     <<PaperBank.cs2, PaperBank.cs1, PaperBank.bare>>}

\* doc.metadata.get("source_file", default)
SourceFile(doc, default) == IF doc.has_source THEN doc.source_file ELSE default

\* Line 71 comparing without lower().
PassesFilter_case_sensitive(doc, subject_filter) ==
    \/ subject_filter = <<>>
    \/ Contains(SourceFile(doc, <<>>), subject_filter)

\* Line 71: no filter, or the lower-cased filter occurs in the lower-cased
\* source_file.
PassesFilter(doc, subject_filter) ==
    \/ subject_filter = <<>>
    \/ Contains(Lower(SourceFile(doc, <<>>)), Lower(subject_filter))

\* Line 75: hash(doc.page_content); equal contents have equal hashes, and
\* different contents are taken to have different ones.
doc_id(doc) == doc.page_content

\* Lines 39-48: the topic of unit n, by where it comes from: a line of the
\* reply, the padding of line 44, or the list of line 48.
Topic(kind, n) == [kind |-> kind, n |-> n]

\* What lines 36-39 end in: the call raises, or the reply has some number
\* of lines that start with a digit or a dash: one, or more than any
\* structure has units.
BreakdownOutcomes ==
    {[failed |-> TRUE, lines |-> 0]} \cup
    {[failed |-> FALSE, lines |-> k] : k \in {1, MaxUnits + 1}}

\* Lines 34-48.
unit_topics_of(out, unit_count) ==
    IF out.failed
    THEN [n \in 1..unit_count |-> Topic("unit", n)]
    ELSE [n \in 1..unit_count |->
            IF n <= out.lines THEN Topic("line", n) ELSE Topic("general", n)]

PaperIdle ==
    [pc |-> "idle",
     structure |-> [unit_count |-> 0, subquestion_labels |-> <<"a">>,
                    has_or_choice |-> FALSE, marks_per_subquestion |-> 5],
     subject_filter |-> <<>>,
     unit_topics |-> <<>>,
     i |-> 0, choice |-> 1, label |-> 1,
     results |-> <<>>,
     placed_questions |-> <<>>,
     used_ids |-> {}]

\* Line 59.
Choices(structure) == IF structure.has_or_choice THEN <<"A", "B">> ELSE <<"A">>

\* generate_exam calls build_exam_from_syllabus(syllabus_text, structure,
\* subject_filter, user_id).
build_exam_from_syllabus(structure, subject_filter) ==
    /\ paper.pc = "idle"
    /\ paper' = [PaperIdle EXCEPT !.pc = "breakdown",
                                  !.structure = structure,
                                  !.subject_filter = subject_filter]
    /\ UNCHANGED <<journey_vars, tutor_vars, examiner_vars, rotation_vars, video_vars,
                   extraction_vars>>

\* Lines 34-54: the unit topics; then the first slot, if there is a unit,
\* else the empty list is returned.
topic_breakdown(out) ==
    /\ paper.pc = "breakdown"
    /\ paper' = [paper EXCEPT
                   !.unit_topics = unit_topics_of(out, paper.structure.unit_count),
                   !.i = 0, !.choice = 1, !.label = 1,
                   !.pc = IF paper.structure.unit_count > 0 THEN "search" ELSE "returned"]
    /\ UNCHANGED <<journey_vars, tutor_vars, examiner_vars, rotation_vars, video_vars,
                   extraction_vars>>

\* Lines 64-65: the query of the slot.  The call stands outside any try
\* block, so an exception of the store leaves the function.
similarity_search(raised, results) ==
    /\ paper.pc = "search"
    /\ IF raised
       THEN paper' = [paper EXCEPT !.pc = "raised"]
       ELSE paper' = [paper EXCEPT !.results = results, !.pc = "scan"]
    /\ UNCHANGED <<journey_vars, tutor_vars, examiner_vars, rotation_vars, video_vars,
                   extraction_vars>>

\* Lines 67-79: the index of the first result that passes the filter and
\* whose id is not in used_ids; 0 if there is none.
selected_doc(results, subject_filter, used_ids) ==
    LET fit == {k \in 1..Len(results) :
                  /\ PassesFilter(results[k], subject_filter)
                  /\ doc_id(results[k]) \notin used_ids}
    IN  IF fit = {} THEN 0 ELSE CHOOSE k \in fit : \A m \in fit : k <= m

\* Lines 91-111: PlacedQuestion(...)
PlacedQuestion(unit_no, main_choice, sub_label, text, marks, source_file, module) ==
    [unit_no |-> unit_no, main_choice |-> main_choice, sub_label |-> sub_label,
     text |-> text, marks |-> marks, source_file |-> source_file, module |-> module]

\* Lines 67-111 and the loop headers of lines 54-62: the slot is filled
\* with the selected document or with the placeholder, and the loops move
\* to the next label, choice, unit; after the last unit line 113 returns.
fill_slot ==
    /\ paper.pc = "scan"
    /\ LET structure == paper.structure
           topic == paper.unit_topics[paper.i + 1]
           choices == Choices(structure)
           k == selected_doc(paper.results, paper.subject_filter, paper.used_ids)
           placed_q ==
               IF k # 0
               THEN PlacedQuestion(paper.i + 1, choices[paper.choice],
                        structure.subquestion_labels[paper.label],
                        paper.results[k].page_content,
                        structure.marks_per_subquestion,
                        SourceFile(paper.results[k], Unknown), topic)
               ELSE PlacedQuestion(paper.i + 1, choices[paper.choice],
                        structure.subquestion_labels[paper.label],
                        "Question about topic not found in DB.",
                        structure.marks_per_subquestion, System, topic)
           last_label == paper.label = Len(structure.subquestion_labels)
           last_choice == paper.choice = Len(choices)
           last_unit == paper.i + 1 = Len(paper.unit_topics)
       IN  paper' = [paper EXCEPT
                       !.placed_questions = Append(@, placed_q),
                       !.used_ids = IF k # 0 THEN @ \cup {doc_id(paper.results[k])} ELSE @,
                       !.results = <<>>,
                       !.label = IF last_label THEN 1 ELSE @ + 1,
                       !.choice = IF ~last_label THEN @ ELSE IF last_choice THEN 1 ELSE @ + 1,
                       !.i = IF last_label /\ last_choice THEN @ + 1 ELSE @,
                       !.pc = IF last_label /\ last_choice /\ last_unit
                              THEN "returned" ELSE "search"]
    /\ UNCHANGED <<journey_vars, tutor_vars, examiner_vars, rotation_vars, video_vars,
                   extraction_vars>>

PaperNext ==
    \/ \E structure \in ExamStructures, subject_filter \in SubjectFilters :
          build_exam_from_syllabus(structure, subject_filter)
    \/ \E out \in BreakdownOutcomes : topic_breakdown(out)
    \/ \E raised \in BOOLEAN, results \in SearchResults : similarity_search(raised, results)
    \/ fill_slot

(***************************************************************************)
(* The specifications: every part starts from the state after import and   *)
(* construction and steps by its own actions.                              *)
(***************************************************************************)
Init ==
    /\ JourneyInit
    /\ TutorInit
    /\ ExaminerInit
    /\ RotationInit
    /\ VideoInit
    /\ ExtractionInit
    /\ paper = PaperIdle

Spec == Init /\ [][Next]_vars

TutorSpec == Init /\ [][TutorNext]_vars

ExaminerSpec == Init /\ [][ExaminerNext]_vars

RotationSpec == Init /\ [][RotationNext]_vars

VideoSpec == Init /\ [][VideoNext]_vars

ExtractionSpec == Init /\ [][ExtractionNext]_vars

PaperSpec == Init /\ [][PaperNext]_vars

\* The video jobs with the scheduling of the event loop: a scheduled task
\* is started, and a task suspended at an await is resumed once the awaited
\* call returns or raises, so no task stays enabled for ever without a step.
VideoLiveSpec == VideoSpec /\ \A job_id \in JobIds : WF_vars(generate_video_task(job_id))

(***************************************************************************)
(* Properties of the journey registry                                      *)
(***************************************************************************)
Stored(u, c) == JourneyOf(u, c) # NoJourney

\* The request handled by the step named a node of a stored journey: the
\* journey before the step and the node's position in it.
ReqJourney == active_journeys[resp'.user][resp'.course]
ReqIndex == FindNode(ReqJourney.nodes, resp'.node_id)
ReqOnNode(op) ==
    /\ resp'.op = op
    /\ ReqJourney # NoJourney
    /\ ReqIndex # 0
ReqJourneyAfter == active_journeys'[resp'.user][resp'.course]

\* The same for the state after the request (the handlers never change a
\* node's id or the length of a journey).
LastJourney == active_journeys[resp.user][resp.course]
LastIndex == FindNode(LastJourney.nodes, resp.node_id)
LastOnNode(op) ==
    /\ resp.op = op
    /\ LastJourney # NoJourney
    /\ LastIndex # 0

C2_PassCompletesAndUnlocksNext ==
    [][ (ReqOnNode("submit_quiz") /\ resp'.result = "pass") =>
          LET before == ReqJourney
              after == ReqJourneyAfter
              i == ReqIndex
          IN  /\ after.nodes[i].status = "completed"
              /\ IF i < Len(before.nodes)
                 THEN /\ after.nodes[i + 1].status = "unlocked"
                      /\ after.current_node_index = i
                 ELSE /\ \A k \in 1..Len(before.nodes) :
                            k # i => after.nodes[k] = before.nodes[k]
                      /\ after.current_node_index = before.current_node_index
                      /\ resp'.next_node_id = Null
      ]_vars

\* C3: a quiz submission naming a locked node is rejected with an error (no
\* pass/fail result) and changes no journey.
C3_SubmitOnLockedRejected ==
    [][ (ReqOnNode("submit_quiz") /\ ReqJourney.nodes[ReqIndex].status = "locked") =>
          /\ resp'.status # 200
          /\ resp'.result = Null
          /\ active_journeys' = active_journeys
      ]_vars

\* C4: a content access naming a locked node is rejected with an error,
\* does not call the generator and changes no journey.
C4_AccessOnLockedRejected ==
    [][ (ReqOnNode("get_node_content") /\ ReqJourney.nodes[ReqIndex].status = "locked") =>
          /\ resp'.status = 403
          /\ gen_calls' = gen_calls
          /\ active_journeys' = active_journeys
      ]_vars

\* A content access to a locked node has just been answered.
C4_Witness ==
    /\ LastOnNode("get_node_content")
    /\ LastJourney.nodes[LastIndex].status = "locked"
    /\ resp.status = 403

\* C5: a quiz submission scored below the threshold changes no journey.
C5_FailChangesNothing ==
    [][ (ReqOnNode("submit_quiz") /\ resp'.result = "fail") =>
          active_journeys' = active_journeys
      ]_vars

\* C6: a quiz submission for an unlocked node without quiz questions
\* completes the node and unlocks the node after it.
C6_EmptyQuizPassCompletes ==
    [][ (/\ ReqOnNode("submit_quiz")
         /\ ReqJourney.nodes[ReqIndex].status = "unlocked"
         /\ ReqJourney.nodes[ReqIndex].quiz_questions = <<>>) =>
          /\ resp'.result = "pass"
          /\ ReqJourneyAfter.nodes[ReqIndex].status = "completed"
          /\ ReqIndex < Len(ReqJourney.nodes) =>
                ReqJourneyAfter.nodes[ReqIndex + 1].status = "unlocked"
      ]_vars

\* C7: over the content accesses to one node the generator is called at
\* most once.
C7_GeneratedAtMostOnce ==
    \A u \in Users, c \in CourseIds :
        \A k \in DOMAIN gen_calls[u][c] : gen_calls[u][c][k] <= 1

\* C8: a content access to an existing, not locked node of an existing
\* journey never ends in an error and returns the node with content.
C8_AccessNeverFails ==
    (LastOnNode("get_node_content") /\ LastJourney.nodes[LastIndex].status # "locked") =>
        /\ resp.status = 200
        /\ LastJourney.nodes[LastIndex].content_summary # ""

\* C9: current_node_index never decreases over quiz submissions and content
\* accesses and never exceeds the index of the last node.
C9_IndexMonotoneAndBounded ==
    [][ \A u \in Users, c \in CourseIds :
          /\ Stored(u, c)' =>
                active_journeys'[u][c].current_node_index
                    <= Len(active_journeys'[u][c].nodes) - 1
          /\ Stored(u, c) =>
                active_journeys'[u][c].current_node_index
                    >= active_journeys[u][c].current_node_index
      ]_vars

\* C10: in every reachable state of a journey the node at
\* current_node_index is not locked and is the last node that is not locked.
C10_IndexIsLastUnlocked ==
    \A u \in Users, c \in CourseIds :
        Stored(u, c) =>
            LET nodes == JourneyOf(u, c).nodes
                cur == JourneyOf(u, c).current_node_index + 1
            IN  /\ cur \in 1..Len(nodes)
                /\ nodes[cur].status # "locked"
                /\ \A k \in (cur + 1)..Len(nodes) : nodes[k].status = "locked"

\* C11: every journey that has just been created, from a parsed curriculum
\* or from the fallback, has its node 0 unlocked, every other node locked
\* and current_node_index = 0.
C11_NewJourneyShape ==
    [][ (resp'.op \in {"start", "start_from_file"} /\ resp'.status = 200) =>
          LET created == ReqJourneyAfter
          IN  /\ created # NoJourney
              /\ created.current_node_index = 0
              /\ Len(created.nodes) >= 1
              /\ created.nodes[1].status = "unlocked"
              /\ \A k \in 2..Len(created.nodes) : created.nodes[k].status = "locked"
      ]_vars

(***************************************************************************)
(* Properties of the Tutor workflow                                        *)
(***************************************************************************)
\* The keys the final state of a run is to hold.
TutorFinalKeys ==
    {"detected_intent", "language_code", "generate_audio", "plan", "context",
     "response", "mindmap_source", "flashcards"}

TutorRunOver == tutor_pc \in {"END", "raised"}

\* C12: no failure of an external call of a Tutor run leaves the run as an
\* exception, and the state a run ends with holds detected_intent,
\* language_code, generate_audio, plan, context, response, mindmap_source
\* and flashcards, and audio_base64 when the audio stage ran.
C12_TutorRunNeverRaises ==
    /\ tutor_pc # "raised"
    /\ tutor_pc = "END" =>
          /\ TutorFinalKeys \subseteq DOMAIN tutor_state
          /\ (\E i \in 1..Len(tutor_trace) : tutor_trace[i] = "audio") =>
                "audio_base64" \in DOMAIN tutor_state

\* The order build_tutor_graph is said to run the stages in.
TutorOrder == <<"intent_router", "planner", "retriever", "generator", "audio">>

\* C14: a Tutor run enters intent_router, planner, retriever and generator
\* in this order, each once; a run that is over has entered all four, and
\* audio after them exactly if generate_audio is true; no stage is entered
\* again.
C14_StagesInOrderOnce ==
    /\ Len(tutor_trace) <= Len(TutorOrder)
    /\ \A i \in 1..Len(tutor_trace) : tutor_trace[i] = TutorOrder[i]
    /\ TutorRunOver =>
          /\ Len(tutor_trace) >= 4
          /\ Len(tutor_trace) = 5 <=> tutor_state["generate_audio"] = TRUE

(***************************************************************************)
(* Properties of the Examiner workflow                                     *)
(***************************************************************************)
ExaminerFinalKeys == {"blueprint", "selected_questions", "final_exam_structure"}

\* C13: when the blueprint model call fails or its output is not a
\* non-empty list, the blueprint is the canned four-module one; a run that
\* is over went through blueprint, selector and assembler, whatever search
\* failed, and holds blueprint, selected_questions and
\* final_exam_structure.
C13_ExaminerFallsBackAndFinishes ==
    LET out == exam_hist.blueprint_out
    IN  /\ (out.kind # "none" /\ ~(out.kind = "list" /\ Len(out.items) > 0)) =>
              exam_state["blueprint"] = FallbackBlueprint
        /\ exam_pc = "END" =>
              /\ ExaminerFinalKeys \subseteq DOMAIN exam_state
              /\ exam_hist.stages = <<"blueprint", "selector", "assembler">>

\* A run on the fallback blueprint that skipped a failing search, still
\* selected questions and is over.
C13_Witness ==
    /\ exam_pc = "END"
    /\ exam_hist.blueprint_out.kind = "call_failed"
    /\ exam_hist.search_failed
    /\ Len(exam_state["selected_questions"]) >= 1

\* C18: for every module of the blueprint the marks selected for it sum to
\* at most target_marks + 5, and every item selected for it was selected
\* while the sum was still below target_marks.
C18_ModuleQuota ==
    \A m \in 1..Len(sel.picks) :
        LET target == exam_state["blueprint"][m].marks
            picked == sel.picks[m]
        IN  /\ SumSeq(picked) <= target + 5
            /\ \A k \in 1..Len(picked) : SumSeq(SubSeq(picked, 1, k - 1)) < target

\* A module whose selection went past its target, within the allowance,
\* with more than one item.
C18_Witness ==
    \E m \in 1..Len(sel.picks) :
        /\ Len(sel.picks[m]) >= 2
        /\ SumSeq(sel.picks[m]) > exam_state["blueprint"][m].marks

\* The dedup key of a selected item: its text's first 100 characters.
KeyOfQuestion(q) == q.text.head

DistinctKeys(questions) ==
    \A i, j \in 1..Len(questions) :
        i # j => KeyOfQuestion(questions[i]) # KeyOfQuestion(questions[j])

\* C19: no two items selected in one Examiner run have the same dedup key,
\* across all modules and queries.
C19_NoDuplicateKeys ==
    /\ DistinctKeys(sel.selected_questions)
    /\ "selected_questions" \in DOMAIN exam_state =>
          DistinctKeys(exam_state["selected_questions"])

\* A finished run over several modules in which every key of the bank was
\* met and three items were selected.
C19_Witness ==
    /\ exam_pc = "END"
    /\ sel.item_index >= 2
    /\ Len(exam_state["selected_questions"]) >= 3
    /\ sel.used_question_hashes = {q_hash(d) : d \in ExamBank}

\* Occurrences of x in the sequence s.
CountIn(x, s) == Cardinality({i \in 1..Len(s) : s[i] = x})

\* C20: the assembled structure puts every selected item into exactly one
\* part, by its marks alone (up to 5: Part A, 6 to 10: Part B, 11 and
\* more: Part C); each part's total_marks is the sum of its items' marks,
\* the metadata's total_marks the sum of the three, and total_questions
\* the number of selected items.
C20_AssemblerPartitions ==
    exam_pc = "END" =>
        LET qs == exam_state["selected_questions"]
            s == exam_state["final_exam_structure"]
            a == s.PartA.questions
            b == s.PartB.questions
            c == s.PartC.questions
        IN  /\ \A i \in 1..Len(qs) :
                  CountIn(qs[i], a) + CountIn(qs[i], b) + CountIn(qs[i], c) = CountIn(qs[i], qs)
            /\ Len(a) + Len(b) + Len(c) = Len(qs)
            /\ \A i \in 1..Len(a) : a[i].marks <= 5
            /\ \A i \in 1..Len(b) : b[i].marks >= 6 /\ b[i].marks <= 10
            /\ \A i \in 1..Len(c) : c[i].marks >= 11
            /\ s.PartA.total_marks = SumSeq(MarksOf(a))
            /\ s.PartB.total_marks = SumSeq(MarksOf(b))
            /\ s.PartC.total_marks = SumSeq(MarksOf(c))
            /\ s.metadata.total_marks =
                  s.PartA.total_marks + s.PartB.total_marks + s.PartC.total_marks
            /\ s.metadata.total_questions = Len(qs)

\* A finished run whose three parts all hold an item, one of them of
\* exactly 5 marks.
C20_Witness ==
    /\ exam_pc = "END"
    /\ LET s == exam_state["final_exam_structure"]
       IN  /\ Len(s.PartB.questions) >= 1
           /\ Len(s.PartC.questions) >= 1
           /\ \E i \in 1..Len(s.PartA.questions) : s.PartA.questions[i].marks = 5

(***************************************************************************)
(* Properties of the key-rotating model call                               *)
(***************************************************************************)
\* An attempt that failed with a rate-limit or authorization error.
RotatingFailure(a) == a.outcome \in {"429", "rate_limit", "401", "invalid_api_key"}

NextCredential(key) == (key + 1) % NumKeys

\* C15: a call makes at most max_retries attempts; every attempt but the
\* last failed with a rate-limit or authorization error and was followed
\* by an attempt on the next credential; any other error ends the call at
\* once with that error and without a rotation; max_retries rate-limit or
\* authorization failures end it by raising.
C15_BoundedRotatingRetries ==
    LET a == rot.attempts
        n == Len(a)
    IN  /\ n <= MaxRetries
        /\ \A i \in 1..(n - 1) :
              /\ RotatingFailure(a[i])
              /\ a[i + 1].key = NextCredential(a[i].key)
        /\ rot.pc = "loop" =>
              /\ n < MaxRetries
              /\ n > 0 => /\ RotatingFailure(a[n])
                          /\ rot.llm_key = NextCredential(a[n].key)
        /\ rot.pc = "returned" => (n >= 1 /\ a[n].outcome = "ok")
        /\ rot.pc = "raised" =>
              /\ n >= 1
              /\ IF RotatingFailure(a[n])
                 THEN /\ n = MaxRetries
                      /\ rot.error = "max_retries"
                 ELSE /\ a[n].outcome # "ok"
                      /\ rot.error = a[n].outcome
                      /\ key_manager.current_index = a[n].key

\* A call that used up its attempts on rate-limit and authorization
\* failures and raised.
C15_Witness ==
    /\ rot.pc = "raised"
    /\ rot.error = "max_retries"
    /\ Len(rot.attempts) = MaxRetries
    /\ \E i, j \in 1..Len(rot.attempts) :
          rot.attempts[i].outcome = "429" /\ rot.attempts[j].outcome = "401"

(***************************************************************************)
(* Properties of the video jobs                                            *)
(***************************************************************************)
PollStatuses ==
    {"queued", "generating_script", "generating_audio", "fetching_videos",
     "assembling", "completed", "failed"}

\* C16: every record a poll can return for a registered job has one of the
\* seven statuses and a progress from 0 to 100, at every point.
C16_StatusAndProgressInRange ==
    /\ \A j \in DOMAIN jobs :
          /\ jobs[j].status \in PollStatuses
          /\ jobs[j].progress >= 0
          /\ jobs[j].progress <= 100
    /\ poll.http = 200 =>
          /\ poll.status \in PollStatuses
          /\ poll.progress >= 0
          /\ poll.progress <= 100

\* A poll answered while the job was fetching the footage of a later scene.
C16_Witness ==
    /\ poll.http = 200
    /\ poll.status = "fetching_videos"
    /\ poll.progress > FetchBase

\* C17: a step that changes the record of a registered job is a step of
\* that job's own task and changes no other job's record; a poll changes
\* no record and returns the fields of the record of the job it names.
C17_JobsIsolated ==
    [][ /\ \A j \in DOMAIN jobs :
              jobs'[j] # jobs[j] =>
                  /\ task'[j] # task[j]
                  /\ \A k \in JobIds \ {j} : task'[k] = task[k]
                  /\ \A k \in (DOMAIN jobs) \ {j} : jobs'[k] = jobs[k]
        /\ poll' # poll =>
              /\ jobs' = jobs
              /\ poll'.http = 200 =>
                    LET record == jobs[poll'.job_id]
                    IN  /\ poll'.status = record.status
                        /\ poll'.progress = record.progress
                        /\ poll'.message = record.message
                        /\ poll'.video_url = GetOr(record, "video_url", Null)
                        /\ poll'.error = GetOr(record, "error", Null)
      ]_vars

\* Two jobs under way at different stages, one of them just polled.
C17_Witness ==
    /\ DOMAIN jobs = JobIds
    /\ \A j \in JobIds : task[j].pc \in {"script", "audio", "fetch"}
    /\ \E j, k \in JobIds : jobs[j].status # jobs[k].status
    /\ poll.http = 200
    /\ poll.status = jobs[poll.job_id].status

\* C25: the status of a job only moves forward along queued,
\* generating_script, generating_audio, fetching_videos, assembling,
\* completed, or from a status that is not terminal to failed; it never
\* moves backward, and a completed or failed job keeps its status.
StatusOrder ==
    <<"queued", "generating_script", "generating_audio", "fetching_videos",
      "assembling", "completed">>

StatusRank(status) == CHOOSE r \in 1..Len(StatusOrder) : StatusOrder[r] = status

TerminalStatuses == {"completed", "failed"}

C25_StatusOnlyForward ==
    [][ \A j \in DOMAIN jobs :
          LET old == jobs[j].status
              new == jobs'[j].status
          IN  /\ old \in TerminalStatuses => new = old
              /\ new # old =>
                    \/ new = "failed"
                    \/ /\ new \in {StatusOrder[r] : r \in 1..Len(StatusOrder)}
                       /\ StatusRank(new) > StatusRank(old)
      ]_vars

\* One job completed after a poll had seen it fetching footage, the other
\* failed.
C25_Witness ==
    /\ DOMAIN jobs = JobIds
    /\ \E j, k \in JobIds :
          /\ jobs[j].status = "completed"
          /\ poll.job_id = j
          /\ poll.status = "fetching_videos"
          /\ jobs[k].status = "failed"

\* C26: every job that has been queued eventually reaches completed or
\* failed, the task being resumed whenever its awaited call has returned or
\* raised.
C26_QueuedJobsFinish ==
    \A j \in JobIds :
        (j \in DOMAIN jobs) ~> (j \in DOMAIN jobs /\ jobs[j].status \in TerminalStatuses)

\* C27: a record carries video_url exactly when its status is completed
\* (and then its progress is 100) and error exactly when its status is
\* failed; so does every poll response.
C27_UrlIffCompletedErrorIffFailed ==
    /\ \A j \in DOMAIN jobs :
          /\ ("video_url" \in DOMAIN jobs[j]) <=> (jobs[j].status = "completed")
          /\ jobs[j].status = "completed" => jobs[j].progress = 100
          /\ ("error" \in DOMAIN jobs[j]) <=> (jobs[j].status = "failed")
    /\ poll.http = 200 =>
          /\ (poll.video_url # Null) <=> (poll.status = "completed")
          /\ poll.status = "completed" => poll.progress = 100
          /\ (poll.error # Null) <=> (poll.status = "failed")

\* A completed job just polled next to a job that failed in the assembly.
C27_Witness ==
    /\ DOMAIN jobs = JobIds
    /\ \E j, k \in JobIds :
          /\ jobs[j].status = "completed"
          /\ poll.http = 200
          /\ poll.job_id = j
          /\ poll.video_url = j
          /\ jobs[k].status = "failed"
          /\ jobs[k].progress = ProgressAssembling

C30_QuotaSkippedNeverSelected ==
    /\ sel.quota_skipped \subseteq sel.used_question_hashes
    /\ \A i \in 1..Len(sel.selected_questions) :
          KeyOfQuestion(sel.selected_questions[i]) \notin sel.quota_skipped
    /\ "selected_questions" \in DOMAIN exam_state =>
          \A i \in 1..Len(exam_state["selected_questions"]) :
              KeyOfQuestion(exam_state["selected_questions"][i]) \notin sel.quota_skipped

\* A candidate passed over for the quota of an earlier module is met again
\* in a later module, where its marks would fit.
C30_Witness ==
    /\ exam_pc = "for_doc"
    /\ sel.item_index >= 2
    /\ sel.docs # <<>>
    /\ sel.current_marks < sel.target_marks
    /\ LET doc == Head(sel.docs)
       IN  /\ doc.has_marks
           /\ q_hash(doc) \in sel.quota_skipped
           /\ ~OverQuota(sel.current_marks, doc.marks, sel.target_marks)

C23_LanguageMentionWantsAudio ==
    [][ (tutor_pc = "intent_router" /\ tutor_pc' = "planner") =>
          LET text == QueryText(tutor_state["user_query"])
              explicit_flag == tutor_state["generate_audio"]
          IN  /\ \A lang_name \in DOMAIN LANGUAGE_MAP :
                    (\E p \in LanguagePatterns(lang_name) : Contains(text, p)) =>
                        /\ tutor_state'["generate_audio"]
                        /\ tutor_state'["language_code"] = LANGUAGE_MAP[lang_name]
              /\ (explicit_flag \/ \E kw \in AudioKeywords : Contains(text, kw)) =>
                    tutor_state'["generate_audio"]
      ]_vars

\* C24: in both stages, a reply with a json-tagged fenced block is parsed
\* as the interior of the fence; a reply without one but with a span from
\* its first opening to its last closing bracket is parsed as that span; a
\* reply with neither, or one whose payload does not parse, makes the stage
\* use its hand-authored fallback; and the stage never returns an empty
\* result.
C24_ExtractionOrderAndFallback ==
    (ext.caller # "none" /\ ~ext.failed) =>
        /\ HasFence(ext.reply) => ext.value = json_loads(FenceInterior(ext.reply))
        /\ (~HasFence(ext.reply) /\ HasBracketSpan(ext.reply)) =>
              ext.value = json_loads(BracketSpan(ext.reply))
        /\ ((~HasFence(ext.reply) /\ ~HasBracketSpan(ext.reply)) \/ ~ext.value.ok) =>
              ext.used_fallback
        /\ ext.result_len > 0

\* The number of slots of a structure, and the unit, choice and label of
\* the slot of index s (from 1) in unit-major order.
SlotCount(structure) ==
    structure.unit_count * Len(Choices(structure)) * Len(structure.subquestion_labels)

SlotUnit(structure, s) ==
    ((s - 1) \div (Len(Choices(structure)) * Len(structure.subquestion_labels))) + 1

SlotChoice(structure, s) ==
    Choices(structure)[(((s - 1) \div Len(structure.subquestion_labels))
                           % Len(Choices(structure))) + 1]

SlotLabel(structure, s) ==
    structure.subquestion_labels[((s - 1) % Len(structure.subquestion_labels)) + 1]

\* C21: build_exam_from_syllabus always returns, with exactly unit_count x
\* (2 if has_or_choice else 1) x |subquestion_labels| placed questions, one
\* per (unit, choice, label) slot in unit-major order, each with marks =
\* marks_per_subquestion; a slot filled from an empty result list holds a
\* placeholder with source_file "System"; the topic breakdown gives
\* unit_count topics also when its model call fails or returns too few
\* lines.
C21_ExactSlots ==
    [][ LET structure == paper.structure
            filled == Len(paper.placed_questions)
        IN  /\ paper'.pc # "raised"
            /\ paper.pc = "breakdown" => Len(paper'.unit_topics) = structure.unit_count
            /\ paper.pc = "scan" =>
                  LET q == paper'.placed_questions[filled + 1]
                  IN  /\ Len(paper'.placed_questions) = filled + 1
                      /\ q.unit_no = SlotUnit(structure, filled + 1)
                      /\ q.main_choice = SlotChoice(structure, filled + 1)
                      /\ q.sub_label = SlotLabel(structure, filled + 1)
                      /\ q.marks = structure.marks_per_subquestion
                      /\ paper.results = <<>> => q.source_file = System
            /\ (paper.pc # "idle" /\ paper'.pc = "returned") =>
                  Len(paper'.placed_questions) = SlotCount(structure)
      ]_vars

\* The contents placed so far, placeholders apart.
PlacedContents(placed) ==
    {placed[k].text : k \in {m \in 1..Len(placed) : placed[m].source_file # System}}

\* C22: no candidate content is placed in more than one slot; with a
\* subject filter, every question that is no placeholder has a source_file
\* containing the filter, case-insensitively; and every slot receives the
\* first result in rank order that passes the filter and was not placed
\* before, or the placeholder if there is none.
C22_DedupFilterFirstFit ==
    [][ LET placed == paper.placed_questions
            after == paper'.placed_questions
            subject_filter == paper.subject_filter
            results == paper.results
            survivors ==
                {k \in 1..Len(results) :
                    /\ \/ subject_filter = <<>>
                       \/ Contains(Lower(SourceFile(results[k], <<>>)), Lower(subject_filter))
                    /\ results[k].page_content \notin PlacedContents(placed)}
        IN  /\ \A m, n \in 1..Len(after) :
                  (m # n /\ after[m].source_file # System /\ after[n].source_file # System)
                      => after[m].text # after[n].text
            /\ \A m \in 1..Len(after) :
                  (paper'.subject_filter # <<>> /\ after[m].source_file # System) =>
                      Contains(Lower(after[m].source_file), Lower(paper'.subject_filter))
            /\ paper.pc = "scan" =>
                  LET q == after[Len(placed) + 1]
                  IN  IF survivors = {}
                      THEN q.source_file = System
                      ELSE LET first == CHOOSE k \in survivors : \A m \in survivors : k <= m
                           IN  /\ q.text = results[first].page_content
                               /\ q.source_file = SourceFile(results[first], Unknown)
      ]_vars

\* A returned paper made under the filter "CS": it holds a question from a
\* file named in upper case, one from a file named in lower case, and a
\* placeholder.
C22_Witness ==
    /\ paper.pc = "returned"
    /\ paper.subject_filter = <<"C", "S">>
    /\ \E k, m, n \in 1..Len(paper.placed_questions) :
          /\ paper.placed_questions[k].source_file = <<"C", "S">>
          /\ paper.placed_questions[m].source_file = <<"c", "s", "m">>
          /\ paper.placed_questions[n].source_file = System
====
